---------------------------- MODULE Spec2Model ----------------------------
(***************************************************************************)
(* GraphSON codec of gremlin_python/structure/io/graphson.py.              *)
(*                                                                         *)
(* In-memory and wire values are tagged tuples whose first element is the  *)
(* kind of the value:                                                      *)
(*   <<"none">>  <<"bool", b>>  <<"int", n>>  <<"long", n>>                *)
(*   <<"float", h>>   (the float h/2, so that int() truncation is real)    *)
(*   <<"str", s>>  <<"list", seq>>  <<"set", seq>>                         *)
(*   <<"dict", seq of <<"item", k, v>>>>   (keys unique)                   *)
(*   <<"Traverser", object, bulk>>  <<"P", operator, value, other>>        *)
(*   <<"Binding", key, value>>  <<"Bytecode", source, step>>               *)
(*   <<"Traversal", bytecode>>  <<"Enum", typeName, name>>                 *)
(*   <<"TraversalStrategy", strategy_name, configuration>>                 *)
(*   <<"Vertex", id, label>> <<"Edge", id, outV, label, inV>>              *)
(*   <<"VertexProperty", id, label, value>> <<"Property", key, value>>     *)
(*   <<"Path", labels, objects>>                                           *)
(*   <<"raise", exceptionName>>  (the call raised instead of returning)    *)
(* The host is Jython (Python 2): bool is a subclass of int, long is not,  *)
(* and the iteration order of a dict is unspecified.                       *)
(***************************************************************************)
EXTENDS Integers, Sequences, FiniteSets, TLC

VARIABLES
    heap,       \* the dicts of the process, by reference
    sessions,   \* the GraphSONIO objects constructed so far
    given,      \* the arguments each session was constructed with
    pc,         \* the last call made
    sid,        \* the session it was made on
    input,      \* its argument
    out         \* its result

vars == <<heap, sessions, given, pc, sid, input, out>>

(* ---------------------------- bounds ----------------------------------- *)
MaxSessions == 2
MaxDepth == 2

(* ---------------------------- values ----------------------------------- *)
None == <<"none">>
PyBool(b) == <<"bool", b>>
PyInt(n) == <<"int", n>>
PyLong(n) == <<"long", n>>
PyFloat(h) == <<"float", h>>
PyStr(s) == <<"str", s>>
PyList(seq) == <<"list", seq>>
Item(k, v) == <<"item", k, v>>
PyDict(items) == <<"dict", items>>
Raise(e) == <<"raise", e>>

Kind(v) == v[1]
IsRaise(v) == Kind(v) = "raise"
IsKeyError(v) == IsRaise(v) /\ v[2] = "KeyError"

_TYPE_KEY == PyStr("@type")
_VALUE_KEY == PyStr("@value")

Min(S) == CHOOSE x \in S : \A y \in S : x <= y

\* the first exception raised while a sequence of results was computed in order
FirstRaise(seq) == seq[Min({i \in 1..Len(seq) : IsRaise(seq[i])})]
AnyRaise(seq) == \E i \in 1..Len(seq) : IsRaise(seq[i])

\* lookups in the item sequence of a dict, and d[key] of a Python dict value
ItemsHas(items, k) == \E i \in 1..Len(items) : items[i][2] = k
ItemsGet(items, k) == items[CHOOSE i \in 1..Len(items) : items[i][2] = k][3]
HasKey(d, k) == ItemsHas(d[2], k)
Get(d, k) == ItemsGet(d[2], k)

\* d[k] = v on the item sequence of a dict: replace in place, else append
Put(items, k, v) ==
    IF ItemsHas(items, k)
    THEN [i \in 1..Len(items) |-> IF items[i][2] = k THEN Item(k, v) ELSE items[i]] \o << >>
    ELSE Append(items, Item(k, v))

RECURSIVE PutAll(_, _)
PutAll(items, more) ==
    IF more = << >> THEN items
    ELSE PutAll(Put(items, Head(more)[2], Head(more)[3]), Tail(more))

Unhashable(v) == Kind(v) \in {"list", "set", "dict"}

(* ------------------------- the host's types ---------------------------- *)
\* type(obj), by the names graphson.py imports them under
TypeOf(v) ==
    CASE Kind(v) = "int" -> "IntType"
      [] Kind(v) = "long" -> "LongType"
      [] Kind(v) = "float" -> "FloatType"
      [] OTHER -> Kind(v)

\* the classes isinstance accepts for a value of type t (bool is an int)
Mro(t) == IF t = "bool" THEN {"bool", "IntType"} ELSE {t}

isinstance(obj, key) == key \in Mro(TypeOf(obj))

(* ------------------------- the codec classes --------------------------- *)
\* the class statements of the module, in the order they are executed
ClassNames ==
    << "_GraphSONTypeIO", "_BytecodeSerializer", "TraversalSerializer",
       "BytecodeSerializer", "TraversalStrategySerializer", "TraverserIO",
       "EnumSerializer", "PSerializer", "BindingSerializer", "LambdaSerializer",
       "TypeSerializer", "_NumberIO", "FloatIO", "DoubleIO", "Int64IO", "Int32IO",
       "VertexDeserializer", "EdgeDeserializer", "VertexPropertyDeserializer",
       "PropertyDeserializer", "PathDeserializer" >>

\* each class statement: its base class and the attributes its own body sets
\* ("None" is Python's None; a method is named by the function that implements it)
ClassDef(name) ==
    CASE name = "_GraphSONTypeIO" ->
           [base |-> "object",
            own |-> [python_type |-> "None", graphson_type |-> "None",
                     dictify |-> "_GraphSONTypeIO.dictify",
                     objectify |-> "_GraphSONTypeIO.objectify"]]
      [] name = "_BytecodeSerializer" ->
           [base |-> "_GraphSONTypeIO", own |-> [dictify |-> "_BytecodeSerializer.dictify"]]
      [] name = "TraversalSerializer" ->
           [base |-> "_BytecodeSerializer", own |-> [python_type |-> "Traversal"]]
      [] name = "BytecodeSerializer" ->
           [base |-> "_BytecodeSerializer", own |-> [python_type |-> "Bytecode"]]
      [] name = "TraversalStrategySerializer" ->
           [base |-> "_GraphSONTypeIO",
            own |-> [python_type |-> "TraversalStrategy",
                     dictify |-> "TraversalStrategySerializer.dictify"]]
      [] name = "TraverserIO" ->
           [base |-> "_GraphSONTypeIO",
            own |-> [python_type |-> "Traverser", graphson_type |-> "g:Traverser",
                     dictify |-> "TraverserIO.dictify", objectify |-> "TraverserIO.objectify"]]
      [] name = "EnumSerializer" ->
           [base |-> "_GraphSONTypeIO",
            own |-> [python_type |-> "Enum", dictify |-> "EnumSerializer.dictify"]]
      [] name = "PSerializer" ->
           [base |-> "_GraphSONTypeIO",
            own |-> [python_type |-> "P", dictify |-> "PSerializer.dictify"]]
      [] name = "BindingSerializer" ->
           [base |-> "_GraphSONTypeIO",
            own |-> [python_type |-> "Binding", dictify |-> "BindingSerializer.dictify"]]
      [] name = "LambdaSerializer" ->
           [base |-> "_GraphSONTypeIO",
            own |-> [python_type |-> "FunctionType", dictify |-> "LambdaSerializer.dictify"]]
      [] name = "TypeSerializer" ->
           [base |-> "_GraphSONTypeIO",
            own |-> [python_type |-> "TypeType", dictify |-> "TypeSerializer.dictify"]]
      [] name = "_NumberIO" ->
           [base |-> "_GraphSONTypeIO",
            own |-> [dictify |-> "_NumberIO.dictify", objectify |-> "_NumberIO.objectify"]]
      [] name = "FloatIO" ->
           [base |-> "_NumberIO",
            own |-> [python_type |-> "FloatType", graphson_type |-> "g:Float",
                     graphson_base_type |-> "Float"]]
      [] name = "DoubleIO" ->
           [base |-> "FloatIO",
            own |-> [graphson_type |-> "g:Double", graphson_base_type |-> "Double"]]
      [] name = "Int64IO" ->
           [base |-> "_NumberIO",
            own |-> [python_type |-> "LongType", graphson_type |-> "g:Int64",
                     graphson_base_type |-> "Int64"]]
      [] name = "Int32IO" ->
           [base |-> "_NumberIO",
            own |-> [python_type |-> "IntType", graphson_type |-> "g:Int32",
                     graphson_base_type |-> "Int32"]]
      [] name = "VertexDeserializer" ->
           [base |-> "_GraphSONTypeIO",
            own |-> [graphson_type |-> "g:Vertex", objectify |-> "VertexDeserializer.objectify"]]
      [] name = "EdgeDeserializer" ->
           [base |-> "_GraphSONTypeIO",
            own |-> [graphson_type |-> "g:Edge", objectify |-> "EdgeDeserializer.objectify"]]
      [] name = "VertexPropertyDeserializer" ->
           [base |-> "_GraphSONTypeIO",
            own |-> [graphson_type |-> "g:VertexProperty",
                     objectify |-> "VertexPropertyDeserializer.objectify"]]
      [] name = "PropertyDeserializer" ->
           [base |-> "_GraphSONTypeIO",
            own |-> [graphson_type |-> "g:Property",
                     objectify |-> "PropertyDeserializer.objectify"]]
      [] name = "PathDeserializer" ->
           [base |-> "_GraphSONTypeIO",
            own |-> [graphson_type |-> "g:Path", objectify |-> "PathDeserializer.objectify"]]
      \* a codec unit written by the caller and handed over in serializer_map
      [] name = "BoolSerializer" ->
           [base |-> "object", own |-> [dictify |-> "BoolSerializer.dictify"]]

\* cls.attr, looked up along the base classes
RECURSIVE Attr(_, _)
Attr(cls, a) ==
    IF a \in DOMAIN ClassDef(cls).own THEN ClassDef(cls).own[a]
    ELSE Attr(ClassDef(cls).base, a)

\* name.startswith('_')
IsPrivateName(name) == name \in {"_GraphSONTypeIO", "_BytecodeSerializer", "_NumberIO"}

\* a registration that keeps the first class registered for a key
GraphSONTypeType__new__firstWins(maps, name) ==
    IF IsPrivateName(name) THEN maps
    ELSE LET pt == Attr(name, "python_type")
             gt == Attr(name, "graphson_type")
             s1 == IF pt # "None" /\ ~ItemsHas(maps.serializers, pt)
                   THEN Put(maps.serializers, pt, name) ELSE maps.serializers
             d1 == IF gt # "None" /\ ~ItemsHas(maps.deserializers, gt)
                   THEN Put(maps.deserializers, gt, name) ELSE maps.deserializers
         IN [serializers |-> s1, deserializers |-> d1]

\* GraphSONTypeType.__new__: the registration a class statement performs on
\* maps = [serializers, deserializers]
GraphSONTypeType__new__(maps, name) ==
    IF IsPrivateName(name) THEN maps
    ELSE LET s1 == IF Attr(name, "python_type") # "None"
                   THEN Put(maps.serializers, Attr(name, "python_type"), name)
                   ELSE maps.serializers
             d1 == IF Attr(name, "graphson_type") # "None"
                   THEN Put(maps.deserializers, Attr(name, "graphson_type"), name)
                   ELSE maps.deserializers
         IN [serializers |-> s1, deserializers |-> d1]

RECURSIVE ImportModule(_, _)
ImportModule(maps, names) ==
    IF names = << >> THEN maps
    ELSE ImportModule(GraphSONTypeType__new__(maps, Head(names)), Tail(names))

\* the two process-wide maps once the module is imported
ModuleMaps == ImportModule([serializers |-> << >>, deserializers |-> << >>], ClassNames)

(* ------------------------------ encoding ------------------------------- *)
RECURSIVE toDict(_, _), dictify(_, _, _), _dictify_instructions(_, _),
          toObject(_, _), objectify(_, _, _)

\* GraphSONIO.typedValue (type_name and prefix are plain strings)
typedValue(type_name, value, prefix) ==
    LET out0 == << Item(_TYPE_KEY, PyStr(prefix \o ":" \o type_name)) >>
    IN PyDict(IF value # None THEN Put(out0, _VALUE_KEY, value) ELSE out0)

\* a comprehension evaluated once, into a sequence
Seq1(f) == f \o << >>

\* a list built from results computed in order; the first exception wins
ListOf(results) ==
    LET rs == Seq1(results)
    IN IF AnyRaise(rs) THEN FirstRaise(rs) ELSE PyList(rs)

\* dict((f(k), f(v)) for k, v in obj.items()): per item the key, then the value,
\* then the insertion, which raises TypeError on an unhashable key
DictOf(keys, values) ==
    LET ks == Seq1(keys)
        vs == Seq1(values)
        each == Seq1([i \in 1..Len(ks) |->
                    IF IsRaise(ks[i]) THEN ks[i]
                    ELSE IF IsRaise(vs[i]) THEN vs[i]
                    ELSE IF Unhashable(ks[i]) THEN Raise("TypeError")
                    ELSE Item(ks[i], vs[i])])
    IN IF AnyRaise(each) THEN FirstRaise(each) ELSE PyDict(PutAll(<< >>, each))

symbolMap ==
    [global_ |-> "global", as_ |-> "as", in_ |-> "in", and_ |-> "and", or_ |-> "or",
     is_ |-> "is", not_ |-> "not", from_ |-> "from", set_ |-> "set", list_ |-> "list",
     all_ |-> "all"]

unmangleKeyword(symbol) == IF symbol \in DOMAIN symbolMap THEN symbolMap[symbol] ELSE symbol

\* _BytecodeSerializer._dictify_instructions; an instruction is the sequence
\* of its op-name and its arguments
_dictify_instructions(instructions, io) ==
    ListOf([i \in 1..Len(instructions) |->
               LET instruction == instructions[i]
               IN ListOf(<< instruction[1] >> \o
                         [j \in 1..(Len(instruction) - 1) |-> toDict(io, instruction[j + 1])])])

\* the bytecode encoder emitting both lists whether or not they are empty
_BytecodeSerializer_dictify_bothKeys(obj, io) ==
    LET bytecode == IF isinstance(obj, "Traversal") THEN obj[2] ELSE obj
        source == _dictify_instructions(bytecode[2], io)
        step == _dictify_instructions(bytecode[3], io)
    IN IF IsRaise(source) THEN source
       ELSE IF IsRaise(step) THEN step
       ELSE typedValue("Bytecode",
                PyDict(<< Item(PyStr("source"), source), Item(PyStr("step"), step) >>), "g")

_BytecodeSerializer_dictify(obj, io) ==
    LET bytecode == IF isinstance(obj, "Traversal") THEN obj[2] ELSE obj
        source == IF bytecode[2] # << >> THEN _dictify_instructions(bytecode[2], io) ELSE None
        step == IF bytecode[3] # << >> THEN _dictify_instructions(bytecode[3], io) ELSE None
        out1 == IF bytecode[2] # << >> THEN << Item(PyStr("source"), source) >> ELSE << >>
        out2 == IF bytecode[3] # << >> THEN Put(out1, PyStr("step"), step) ELSE out1
    IN IF IsRaise(source) THEN source
       ELSE IF IsRaise(step) THEN step
       ELSE typedValue("Bytecode", PyDict(out2), "g")

TraversalStrategySerializer_dictify(strategy, io) ==
    LET conf == toDict(io, strategy[3])
    IN IF IsRaise(conf) THEN conf ELSE typedValue(strategy[2], conf, "g")

TraverserIO_dictify(traverser, io) ==
    LET value == toDict(io, traverser[2])
        bulk == toDict(io, traverser[3])
    IN IF IsRaise(value) THEN value
       ELSE IF IsRaise(bulk) THEN bulk
       ELSE typedValue("Traverser",
                       PyDict(<< Item(PyStr("value"), value), Item(PyStr("bulk"), bulk) >>), "g")

EnumSerializer_dictify(enum, io) ==
    typedValue(unmangleKeyword(enum[2]), PyStr(unmangleKeyword(enum[3])), "g")

\* the predicate encoder wrapping the operands in a list whatever their number
PSerializer_dictify_alwaysList(p, io) ==
    LET value == toDict(io, p[3])
        other == toDict(io, p[4])
    IN IF IsRaise(value) THEN value
       ELSE IF IsRaise(other) THEN other
       ELSE typedValue("P",
                PyDict(<< Item(PyStr("predicate"), PyStr(p[2])),
                          Item(PyStr("value"), PyList(<< value, other >>)) >>),
                "g")

PSerializer_dictify(p, io) ==
    LET value == toDict(io, p[3])
        other == toDict(io, p[4])
    IN IF IsRaise(value) THEN value
       ELSE IF p[4] # None /\ IsRaise(other) THEN other
       ELSE typedValue("P",
                PyDict(<< Item(PyStr("predicate"), PyStr(p[2])),
                          Item(PyStr("value"),
                               IF p[4] # None THEN PyList(<< value, other >>) ELSE value) >>),
                "g")

BindingSerializer_dictify(binding, io) ==
    LET value == toDict(io, binding[3])
    IN IF IsRaise(value) THEN value
       ELSE typedValue("Binding",
                PyDict(<< Item(PyStr("key"), PyStr(binding[2])), Item(PyStr("value"), value) >>),
                "g")

\* the number encoder without its test for bool
_NumberIO_dictify_noBoolTest(cls, n, io) == typedValue(Attr(cls, "graphson_base_type"), n, "g")

_NumberIO_dictify(cls, n, io) ==
    IF isinstance(n, "bool") THEN n
    ELSE typedValue(Attr(cls, "graphson_base_type"), n, "g")

\* the caller's own encoder for bool, registered through serializer_map
BoolSerializer_dictify(b, io) == typedValue("Boolean", b, "x")

\* serializer.dictify(obj, io): the method the class resolves to
dictify(serializer, obj, io) ==
    LET f == Attr(serializer, "dictify")
    IN CASE f = "_BytecodeSerializer.dictify" -> _BytecodeSerializer_dictify(obj, io)
         [] f = "TraversalStrategySerializer.dictify" -> TraversalStrategySerializer_dictify(obj, io)
         [] f = "TraverserIO.dictify" -> TraverserIO_dictify(obj, io)
         [] f = "EnumSerializer.dictify" -> EnumSerializer_dictify(obj, io)
         [] f = "PSerializer.dictify" -> PSerializer_dictify(obj, io)
         [] f = "BindingSerializer.dictify" -> BindingSerializer_dictify(obj, io)
         [] f = "_NumberIO.dictify" -> _NumberIO_dictify(serializer, obj, io)
         [] f = "BoolSerializer.dictify" -> BoolSerializer_dictify(obj, io)
         [] f = "_GraphSONTypeIO.dictify" -> Raise("NotImplementedError")

\* GraphSONIO.toDict; io.serializers is the session's map in the order its
\* items() yields the entries
toDict(io, obj) ==
    LET matching == {i \in 1..Len(io.serializers) : isinstance(obj, io.serializers[i][2])}
    IN IF matching # {} THEN dictify(io.serializers[Min(matching)][3], obj, io)
       ELSE IF Kind(obj) \in {"list", "set"}
            THEN ListOf([i \in 1..Len(obj[2]) |-> toDict(io, obj[2][i])])
       ELSE IF Kind(obj) = "dict"
            THEN DictOf([i \in 1..Len(obj[2]) |-> toDict(io, obj[2][i][2])],
                        [i \in 1..Len(obj[2]) |-> toDict(io, obj[2][i][3])])
       ELSE obj

(* ------------------------------ decoding ------------------------------- *)
\* the numerals among the strings of the model, for int("7") and float("7")
Numerals == ("7" :> 7) @@ ("1" :> 1)

\* the characters of the short strings of the model, for iterating a string
Chars(s) ==
    CASE s = "" -> << >>
      [] s = "a" -> << PyStr("a") >>
      [] s = "b" -> << PyStr("b") >>
      [] s = "7" -> << PyStr("7") >>
      [] s = "1" -> << PyStr("1") >>

Truncate(h) == IF h >= 0 THEN h \div 2 ELSE -((-h) \div 2)

\* int(v), long(v), float(v): cls.python_type(v) of the number classes
PyNumber(python_type, v) ==
    LET make(n) == IF python_type = "IntType" THEN PyInt(n)
                   ELSE IF python_type = "LongType" THEN PyLong(n)
                   ELSE PyFloat(2 * n)
    IN CASE Kind(v) \in {"int", "long"} -> make(v[2])
         [] Kind(v) = "bool" -> make(IF v[2] THEN 1 ELSE 0)
         [] Kind(v) = "float" -> IF python_type = "FloatType" THEN v ELSE make(Truncate(v[2]))
         [] Kind(v) = "str" -> IF v[2] \in DOMAIN Numerals THEN make(Numerals[v[2]])
                               ELSE Raise("ValueError")
         [] OTHER -> Raise("TypeError")

\* d[key] as the decoders write it, key a string
Subscript(d, key) ==
    IF Kind(d) # "dict" THEN Raise("TypeError")
    ELSE IF HasKey(d, PyStr(key)) THEN Get(d, PyStr(key))
    ELSE Raise("KeyError")

\* d.get(key, default) of a dict
DictGet(d, key, default) == IF HasKey(d, PyStr(key)) THEN Get(d, PyStr(key)) ELSE default

\* toObject(d[key]): the lookup, then the recursive decode
DecodeField(io, d, key) ==
    IF IsRaise(Subscript(d, key)) THEN Subscript(d, key) ELSE toObject(io, Subscript(d, key))

\* the constructors of the domain classes (gremlin_python.structure.graph and
\* gremlin_python.process.traversal); the arguments are evaluated in order
Construct(kind, args) == IF AnyRaise(args) THEN FirstRaise(args) ELSE << kind >> \o args

\* every number class building an int, whatever its python_type
_NumberIO_objectify_alwaysInt(cls, v) == PyNumber("IntType", v)

_NumberIO_objectify(cls, v) == PyNumber(Attr(cls, "python_type"), v)

TraverserIO_objectify(d, io) ==
    Construct("Traverser", << DecodeField(io, d, "value"), DecodeField(io, d, "bulk") >>)

VertexDeserializer_objectify(d, io) ==
    IF IsRaise(DecodeField(io, d, "id")) THEN DecodeField(io, d, "id")
    ELSE Construct("Vertex", << DecodeField(io, d, "id"), DictGet(d, "label", PyStr("")) >>)

EdgeDeserializer_objectify(d, io) ==
    IF IsRaise(DecodeField(io, d, "id")) THEN DecodeField(io, d, "id")
    ELSE IF IsRaise(DecodeField(io, d, "outV")) THEN DecodeField(io, d, "outV")
    ELSE Construct("Edge",
            << DecodeField(io, d, "id"),
               Construct("Vertex", << DecodeField(io, d, "outV"), PyStr("") >>),
               DictGet(d, "label", PyStr("vertex")),
               Construct("Vertex", << DecodeField(io, d, "inV"), PyStr("") >>) >>)

VertexPropertyDeserializer_objectify(d, io) ==
    Construct("VertexProperty",
        << DecodeField(io, d, "id"), Subscript(d, "label"), DecodeField(io, d, "value") >>)

PropertyDeserializer_objectify(d, io) ==
    Construct("Property", << Subscript(d, "key"), DecodeField(io, d, "value") >>)

\* iterating a value: the elements of a list or set, the keys of a dict, the
\* characters of a string; anything else is not iterable
Iterate(v) ==
    CASE Kind(v) \in {"list", "set"} -> PyList(v[2])
      [] Kind(v) = "dict" -> PyList([i \in 1..Len(v[2]) |-> v[2][i][2]])
      [] Kind(v) = "str" -> PyList(Chars(v[2]))
      [] OTHER -> Raise("TypeError")

\* set(label): duplicates dropped, an unhashable element is a TypeError
RECURSIVE Dedup(_)
Dedup(seq) ==
    IF seq = << >> THEN << >>
    ELSE LET rest == Dedup(SubSeq(seq, 1, Len(seq) - 1))
             last == seq[Len(seq)]
         IN IF \E i \in 1..Len(rest) : rest[i] = last THEN rest ELSE Append(rest, last)

PySet(label) ==
    IF IsRaise(Iterate(label)) THEN Iterate(label)
    ELSE IF \E i \in 1..Len(Iterate(label)[2]) : Unhashable(Iterate(label)[2][i])
         THEN Raise("TypeError")
    ELSE << "set", Dedup(Iterate(label)[2]) >>

PathDeserializer_objectify(d, io) ==
    LET l0 == IF IsRaise(Subscript(d, "labels")) THEN Subscript(d, "labels")
              ELSE Iterate(Subscript(d, "labels"))
        labels == IF IsRaise(l0) THEN l0
                  ELSE ListOf([i \in 1..Len(l0[2]) |-> PySet(l0[2][i])])
        o0 == IF IsRaise(Subscript(d, "objects")) THEN Subscript(d, "objects")
              ELSE Iterate(Subscript(d, "objects"))
        objects == IF IsRaise(o0) THEN o0
                   ELSE ListOf([i \in 1..Len(o0[2]) |-> toObject(io, o0[2][i])])
    IN IF IsRaise(labels) THEN labels ELSE Construct("Path", << labels, objects >>)

\* deserializer.objectify(d, io): the method the class resolves to
objectify(deserializer, d, io) ==
    LET f == Attr(deserializer, "objectify")
    IN CASE f = "_NumberIO.objectify" -> _NumberIO_objectify(deserializer, d)
         [] f = "TraverserIO.objectify" -> TraverserIO_objectify(d, io)
         [] f = "VertexDeserializer.objectify" -> VertexDeserializer_objectify(d, io)
         [] f = "EdgeDeserializer.objectify" -> EdgeDeserializer_objectify(d, io)
         [] f = "VertexPropertyDeserializer.objectify" -> VertexPropertyDeserializer_objectify(d, io)
         [] f = "PropertyDeserializer.objectify" -> PropertyDeserializer_objectify(d, io)
         [] f = "PathDeserializer.objectify" -> PathDeserializer_objectify(d, io)
         [] f = "_GraphSONTypeIO.objectify" -> Raise("NotImplementedError")

\* the expression inside the try of toObject:
\*   self.deserializers[obj["@type"]].objectify(obj["@value"], self)
DecodeEnvelope(io, obj) ==
    IF ~HasKey(obj, _TYPE_KEY) THEN Raise("KeyError")
    ELSE IF Unhashable(Get(obj, _TYPE_KEY)) THEN Raise("TypeError")
    ELSE IF Kind(Get(obj, _TYPE_KEY)) # "str" THEN Raise("KeyError")
    ELSE IF ~ItemsHas(io.deserializers, Get(obj, _TYPE_KEY)[2]) THEN Raise("KeyError")
    ELSE IF ~HasKey(obj, _VALUE_KEY) THEN Raise("KeyError")
    ELSE objectify(ItemsGet(io.deserializers, Get(obj, _TYPE_KEY)[2]), Get(obj, _VALUE_KEY), io)

\* toObject whose fallback hands the mapping back as it came, undecoded
toObject_fallbackUndecoded(io, obj) ==
    IF Kind(obj) = "dict"
    THEN LET r == DecodeEnvelope(io, obj)
         IN IF ~IsKeyError(r) THEN r ELSE obj
    ELSE IF Kind(obj) = "list"
         THEN ListOf([i \in 1..Len(obj[2]) |-> toObject(io, obj[2][i])])
    ELSE obj

\* GraphSONIO.toObject: "except KeyError: pass" covers the whole expression,
\* the decoder's own lookups included
toObject(io, obj) ==
    IF Kind(obj) = "dict"
    THEN LET r == DecodeEnvelope(io, obj)
         IN IF ~IsKeyError(r) THEN r
         ELSE DictOf([i \in 1..Len(obj[2]) |-> toObject(io, obj[2][i][2])],
                     [i \in 1..Len(obj[2]) |-> toObject(io, obj[2][i][3])])
    ELSE IF Kind(obj) = "list"
         THEN ListOf([i \in 1..Len(obj[2]) |-> toObject(io, obj[2][i])])
    ELSE obj

(* ----------------------- the in-memory inputs -------------------------- *)
Traverser(object, bulk) == << "Traverser", object, bulk >>
P(operator, value, other) == << "P", operator, value, other >>
Binding(key, value) == << "Binding", key, value >>
Bytecode(source_instructions, step_instructions) ==
    << "Bytecode", source_instructions, step_instructions >>
Traversal(bytecode) == << "Traversal", bytecode >>
Enum(typeName, name) == << "Enum", typeName, name >>
TraversalStrategy(strategy_name, configuration) ==
    << "TraversalStrategy", strategy_name, configuration >>

Atoms ==
    { None, PyBool(TRUE), PyBool(FALSE), PyInt(5), PyLong(7), PyFloat(3), PyStr("a") }

\* the values one construction step builds from the values of S
Wrap(S) ==
    { PyList(<< >>), Bytecode(<< >>, << >>), Enum("Order", "decr"), Enum("Scope", "global_"),
      TraversalStrategy("ReadOnlyStrategy", None) }
    \cup { PyList(<< x >>) : x \in S }
    \cup { PyList(<< x, PyBool(TRUE) >>) : x \in S \cap Atoms }
    \cup { << "set", << x >> >> : x \in S \cap Atoms }
    \cup { PyDict(<< Item(PyStr("k"), x) >>) : x \in S }
    \cup { PyDict(<< Item(x, PyStr("v")) >>) : x \in S \cap Atoms }
    \cup { Traverser(x, PyLong(1)) : x \in S }
    \cup { Traverser(PyStr("a"), x) : x \in S \cap { PyInt(5), PyLong(7) } }
    \cup { P("eq", x, None) : x \in S }
    \cup { P("between", x, PyBool(FALSE)) : x \in S }
    \cup { P("and", PyInt(5), x) : x \in S \ { None } }
    \cup { Binding("x", x) : x \in S }
    \cup { Bytecode(<< >>, << << PyStr("V"), x >>, << PyStr("out") >> >>) : x \in S }
    \cup { Bytecode(<< << PyStr("withSack"), x, PyBool(TRUE) >> >>, << >>) : x \in S }
    \cup { Bytecode(<< << PyStr("withSideEffect"), PyStr("a"), x >> >>,
                    << << PyStr("has"), PyStr("a"), x >>, << PyStr("count") >> >>) : x \in S }
    \cup { Traversal(b) : b \in { y \in S : Kind(y) = "Bytecode" } }
    \cup { TraversalStrategy("SubgraphStrategy", c) : c \in { y \in S : Kind(y) = "dict" } }

RECURSIVE ValuesUpTo(_)
ValuesUpTo(d) == IF d = 0 THEN Atoms ELSE ValuesUpTo(d - 1) \cup Wrap(ValuesUpTo(d - 1))

Values == ValuesUpTo(MaxDepth)

(* -------------------------- the wire inputs ---------------------------- *)
Envelope(tag, payload) == PyDict(<< Item(_TYPE_KEY, PyStr(tag)), Item(_VALUE_KEY, payload) >>)

WireAtoms == { None, PyBool(TRUE), PyInt(1), PyFloat(3), PyStr("a"), PyStr("7") }

Tags == { "g:Int32", "g:Double", "g:Traverser", "g:Vertex", "x:Bogus" }
MoreTags == { "g:Int64", "g:Float", "x:Id", "g:Edge", "g:VertexProperty", "g:Property", "g:Path" }

\* the wire trees one construction step builds from the trees of S
WireWrap(S) ==
    { PyDict(<< Item(_TYPE_KEY, PyStr(t)) >>) : t \in Tags \cup MoreTags }
    \cup { PyDict(<< Item(PyStr("label"), PyStr("x")) >>),
           PyDict(<< Item(PyStr("labels"), PyList(<< PyList(<< >>), PyList(<< PyStr("a") >>) >>)),
                     Item(PyStr("objects"), PyList(<< PyInt(1), PyInt(2) >>)) >>) }
    \cup { Envelope(t, x) : t \in Tags, x \in S }
    \cup { Envelope(t, x) : t \in MoreTags, x \in S \cap WireAtoms }
    \cup { PyList(<< x, PyInt(1) >>) : x \in S }
    \cup { PyDict(<< Item(PyStr("a"), x) >>) : x \in S }
    \cup { PyDict(<< Item(PyStr("id"), x) >>) : x \in S }
    \cup { PyDict(<< Item(PyStr("value"), x), Item(PyStr("bulk"), PyInt(1)) >>) : x \in S }
    \cup { PyDict(<< Item(_TYPE_KEY, x) >>) : x \in S \cap WireAtoms }
    \cup { PyDict(<< Item(_TYPE_KEY, PyList(<< x >>)) >>) : x \in S \cap WireAtoms }
    \cup { PyDict(<< Item(PyStr("id"), x), Item(PyStr("label"), PyStr("person")) >>) :
              x \in S \cap WireAtoms }
    \cup { PyDict(<< Item(PyStr("id"), x), Item(PyStr("outV"), PyInt(1)),
                     Item(PyStr("inV"), PyInt(2)) >>) : x \in S \cap WireAtoms }
    \cup { PyDict(<< Item(PyStr("id"), x), Item(PyStr("label"), PyStr("name")),
                     Item(PyStr("value"), PyStr("marko")) >>) : x \in S \cap WireAtoms }
    \cup { PyDict(<< Item(PyStr("key"), PyStr("since")), Item(PyStr("value"), x) >>) :
              x \in S \cap WireAtoms }
    \cup { PyDict(<< Item(PyStr("value"), x) >>) : x \in S \cap WireAtoms }

RECURSIVE WireUpTo(_)
WireUpTo(d) == IF d = 0 THEN WireAtoms ELSE WireUpTo(d - 1) \cup WireWrap(WireUpTo(d - 1))

Wire == WireUpTo(MaxDepth)

(* ---------------------------- the sessions ----------------------------- *)
SerRef(i) == << "serializers", i >>
DesRef(i) == << "deserializers", i >>
Refs == { SerRef(i) : i \in 0..MaxSessions } \cup { DesRef(i) : i \in 0..MaxSessions }

\* the module-level dicts
_serializers == heap[SerRef(0)]
_deserializers == heap[DesRef(0)]

Unborn == [born |-> FALSE, serializers |-> << "unset", 0 >>, deserializers |-> << "unset", 0 >>]

\* the session as the codec reads it: the contents of the two dicts it refers to
Session(s) ==
    [serializers |-> heap[sessions[s].serializers],
     deserializers |-> heap[sessions[s].deserializers]]

\* what the caller may pass as serializer_map / deserializer_map
SerializerMaps ==
    { None, PyDict(<< >>), PyDict(<< Item("bool", "BoolSerializer") >>),
      PyDict(<< Item("FloatType", "FloatIO") >>) }
DeserializerMaps ==
    { None, PyDict(<< Item("g:Int32", "Int64IO") >>), PyDict(<< Item("x:Id", "Int64IO") >>) }

Truthy(m) == m # None /\ m[2] # << >>

\* dict.copy(): a new dict at the reference fresh holding the entries of src;
\* the value of the expression is the reference of the new dict
Allocate(h, src, fresh) == [h EXCEPT ![fresh] = h[src]]
\* the session bound to the module-level dict itself, no copy taken
copy_aliased(src, fresh) == src
copy(src, fresh) == fresh

\* dict.update(more) on an item sequence: an existing key keeps its place and
\* takes the new value; where the new keys come in the iteration order is not
\* specified by the host, they come first (front) or last
Updated(items, more, front) ==
    LET old == SelectSeq(more, LAMBDA it : ItemsHas(items, it[2]))
        new == SelectSeq(more, LAMBDA it : ~ItemsHas(items, it[2]))
    IN IF front THEN new \o PutAll(items, old) ELSE PutAll(items, old) \o new

update(h, ref, more, front) == [h EXCEPT ![ref] = Updated(h[ref], more, front)]

\* GraphSONIO.__init__ for the session s
GraphSONIO__init__(s, serializer_map, deserializer_map, front) ==
    LET h1 == Allocate(heap, SerRef(0), SerRef(s))
        serializers == copy(SerRef(0), SerRef(s))
        h2 == IF Truthy(serializer_map) THEN update(h1, serializers, serializer_map[2], front)
              ELSE h1
        h3 == Allocate(h2, DesRef(0), DesRef(s))
        deserializers == copy(DesRef(0), DesRef(s))
        h4 == IF Truthy(deserializer_map)
              THEN update(h3, deserializers, deserializer_map[2], FALSE)
              ELSE h3
    IN /\ ~sessions[s].born
       /\ heap' = h4
       /\ sessions' = [sessions EXCEPT ![s] = [born |-> TRUE, serializers |-> serializers,
                                               deserializers |-> deserializers]]
       /\ given' = [given EXCEPT ![s] = [serializer_map |-> serializer_map,
                                         deserializer_map |-> deserializer_map]]
       /\ UNCHANGED <<pc, sid, input, out>>

\* a toDict call on session s
ToDict(s, obj) ==
    /\ sessions[s].born
    /\ out' = toDict(Session(s), obj)
    /\ input' = obj
    /\ sid' = s
    /\ pc' = "toDict"
    /\ UNCHANGED <<heap, sessions, given>>

\* a toObject call on session s
ToObject(s, obj) ==
    /\ sessions[s].born
    /\ out' = toObject(Session(s), obj)
    /\ input' = obj
    /\ sid' = s
    /\ pc' = "toObject"
    /\ UNCHANGED <<heap, sessions, given>>

\* toObject(toDict(v)) on session s: the decode of what the session just encoded
ReadBack(s) ==
    /\ pc = "toDict" /\ sid = s /\ ~IsRaise(out)
    /\ out' = toObject(Session(s), out)
    /\ pc' = "readBack"
    /\ UNCHANGED <<heap, sessions, given, sid, input>>

\* a typedValue call on session s
TypedValue(s, type_name, value, prefix) ==
    /\ sessions[s].born
    /\ out' = typedValue(type_name, value, prefix)
    /\ input' = value
    /\ sid' = s
    /\ pc' = "typedValue"
    /\ UNCHANGED <<heap, sessions, given>>

InitHeap ==
    [r \in Refs |-> IF r = SerRef(0) THEN ModuleMaps.serializers
                    ELSE IF r = DesRef(0) THEN ModuleMaps.deserializers
                    ELSE << >>]

\* one caller, one session, one value: it encodes a value (and may decode the
\* result), or it decodes a wire tree
Init ==
    /\ heap = InitHeap
    /\ sessions = [s \in 1..MaxSessions |-> Unborn]
    /\ given = [s \in 1..MaxSessions |-> [serializer_map |-> None, deserializer_map |-> None]]
    /\ sid = 0
    /\ out = None
    /\ \/ pc = "encode" /\ input \in Values
       \/ pc = "decode" /\ input \in Wire

Next ==
    \/ \E sm \in SerializerMaps, dm \in DeserializerMaps, front \in BOOLEAN :
          /\ sm = None \/ dm = None
          /\ GraphSONIO__init__(1, sm, dm, front)
    \/ pc = "encode" /\ ToDict(1, input)
    \/ pc = "decode" /\ ToObject(1, input)
    \/ ReadBack(1)

Spec == Init /\ [][Next]_vars

\* several sessions and any sequence of calls on them
SmallValues == Atoms \cup { PyList(<< PyBool(TRUE) >>), Traverser(PyFloat(3), PyLong(1)) }
SmallWire ==
    { Envelope("g:Int32", PyInt(1)), Envelope("x:Id", PyInt(1)), Envelope("g:Float", PyInt(1)),
      PyDict(<< Item(_TYPE_KEY, PyStr("g:Int32")) >>), PyList(<< PyInt(1) >>) }

InitRegistry ==
    /\ heap = InitHeap
    /\ sessions = [s \in 1..MaxSessions |-> Unborn]
    /\ given = [s \in 1..MaxSessions |-> [serializer_map |-> None, deserializer_map |-> None]]
    /\ sid = 0
    /\ out = None
    /\ input = None
    /\ pc = "idle"

NextRegistry ==
    \/ \E s \in 1..MaxSessions, sm \in SerializerMaps, dm \in DeserializerMaps,
          front \in BOOLEAN :
          /\ sm = None \/ dm = None
          /\ GraphSONIO__init__(s, sm, dm, front)
    \/ \E s \in 1..MaxSessions, v \in SmallValues : ToDict(s, v)
    \/ \E s \in 1..MaxSessions, w \in SmallWire : ToObject(s, w)
    \/ \E s \in 1..MaxSessions : ReadBack(s)
    \/ \E s \in 1..MaxSessions, v \in { None, PyInt(5) }, prefix \in { "g", "x" } :
          TypedValue(s, "Int32", v, prefix)

SpecRegistry == InitRegistry /\ [][NextRegistry]_vars

(* ------------------------------ the claims ----------------------------- *)
\* the session holds exactly the default registry
DefaultSession(s) ==
    /\ sessions[s].born
    /\ Session(s).serializers = ModuleMaps.serializers
    /\ Session(s).deserializers = ModuleMaps.deserializers

\* obj carries "@type" and the tag is a key of the session's decode map
RegisteredTag(io, obj) ==
    /\ HasKey(obj, _TYPE_KEY)
    /\ Kind(Get(obj, _TYPE_KEY)) = "str"
    /\ ItemsHas(io.deserializers, Get(obj, _TYPE_KEY)[2])

DecoderOf(io, obj) == ItemsGet(io.deserializers, Get(obj, _TYPE_KEY)[2])

\* the payload fields a decoder looks up with d[...]
RequiredFields(cls) ==
    CASE Attr(cls, "objectify") = "TraverserIO.objectify" -> {"value", "bulk"}
      [] Attr(cls, "objectify") = "VertexDeserializer.objectify" -> {"id"}
      [] Attr(cls, "objectify") = "EdgeDeserializer.objectify" -> {"id", "outV", "inV"}
      [] Attr(cls, "objectify") = "VertexPropertyDeserializer.objectify" -> {"id", "label", "value"}
      [] Attr(cls, "objectify") = "PropertyDeserializer.objectify" -> {"key", "value"}
      [] Attr(cls, "objectify") = "PathDeserializer.objectify" -> {"labels", "objects"}
      [] OTHER -> {}

\* C1: decoding an envelope with a registered tag whose payload mapping lacks
\* a field the decoder requires fails: the call raises and returns no value.
C1_MissingFieldIsFatal ==
    ( /\ pc = "toObject"
      /\ Kind(input) = "dict"
      /\ RegisteredTag(Session(sid), input)
      /\ HasKey(input, _VALUE_KEY)
      /\ Kind(Get(input, _VALUE_KEY)) = "dict"
      /\ \E f \in RequiredFields(DecoderOf(Session(sid), input)) :
            ~HasKey(Get(input, _VALUE_KEY), PyStr(f)) )
    => IsRaise(out)

\* C2: a mapping with a registered "@type" and no "@value" is handed to the
\* registered decoder with a nil payload; the result is what that decoder
\* makes of nil, not the generic decode of the mapping.
C2_MissingValueDecodedAsNil ==
    ( /\ pc = "toObject"
      /\ Kind(input) = "dict"
      /\ RegisteredTag(Session(sid), input)
      /\ ~HasKey(input, _VALUE_KEY) )
    => out = objectify(DecoderOf(Session(sid), input), None, Session(sid))

\* the generic decode of a mapping: every key and every value through toObject
GenericDecode(io, obj) ==
    PyDict(Seq1([i \in 1..Len(obj[2]) |->
                    Item(toObject(io, obj[2][i][2]), toObject(io, obj[2][i][3]))]))

\* C3 as stated: a mapping whose "@type" tag is not in the decode registry never
\* makes toObject raise, and decodes to the ordinary map of its decoded entries.
C3_UnknownTagNeverRaises ==
    ( /\ pc = "toObject"
      /\ Kind(input) = "dict"
      /\ HasKey(input, _TYPE_KEY)
      /\ ~RegisteredTag(Session(sid), input) )
    => ( ~IsRaise(out) /\ out = GenericDecode(Session(sid), input) )

\* C3 amended: when the unregistered tag is hashable, toObject raises nothing of
\* its own: the result is the ordinary map with the same keys and the decoded
\* values, unless decoding one of the values raises, and then the first such
\* error is the result.
C3_UnknownTagFallsBack ==
    ( /\ pc = "toObject"
      /\ Kind(input) = "dict"
      /\ HasKey(input, _TYPE_KEY)
      /\ ~RegisteredTag(Session(sid), input)
      /\ ~Unhashable(Get(input, _TYPE_KEY)) )
    => LET vs == Seq1([i \in 1..Len(input[2]) |-> toObject(Session(sid), input[2][i][3])])
       IN IF AnyRaise(vs) THEN out = FirstRaise(vs)
          ELSE out = PyDict(Seq1([i \in 1..Len(input[2]) |-> Item(input[2][i][2], vs[i])]))

C3_Witness ==
    /\ pc = "toObject"
    /\ input = Envelope("x:Bogus", PyDict(<< Item(PyStr("a"), PyInt(1)) >>))
    /\ out = input

\* a map as the set of its (key, value) pairs
AsMap(items) == { << items[i][2], items[i][3] >> : i \in 1..Len(items) }
MapItems(m) == IF m = None THEN << >> ELSE m[2]

\* defaults with the caller's entries replacing the default entry of the same key
Layered(defaults, m) ==
    { p \in AsMap(defaults) : ~ItemsHas(MapItems(m), p[1]) } \cup AsMap(MapItems(m))

\* C4: whatever sessions were constructed and whatever calls were made, the two
\* process-wide maps are as the import left them, and every session's maps are
\* the defaults with that session's own overrides layered on top, one entry per key.
C4_DefaultsUntouched ==
    /\ _serializers = ModuleMaps.serializers
    /\ _deserializers = ModuleMaps.deserializers
    /\ \A s \in 1..MaxSessions :
          sessions[s].born =>
             /\ AsMap(Session(s).serializers) =
                   Layered(ModuleMaps.serializers, given[s].serializer_map)
             /\ AsMap(Session(s).deserializers) =
                   Layered(ModuleMaps.deserializers, given[s].deserializer_map)
             /\ Cardinality(AsMap(Session(s).serializers)) = Len(Session(s).serializers)
             /\ Cardinality(AsMap(Session(s).deserializers)) = Len(Session(s).deserializers)

C4_Witness ==
    /\ sessions[1].born /\ sessions[2].born
    /\ given[1].serializer_map = PyDict(<< Item("bool", "BoolSerializer") >>)
    /\ given[2].deserializer_map = PyDict(<< Item("g:Int32", "Int64IO") >>)
    /\ pc = "toDict" /\ sid = 1 /\ input = PyBool(TRUE)

\* the values that survive encode-then-decode: numbers, booleans, strings, nil,
\* lists and maps keyed by strings other than "@type" of such values, and
\* Traversers of such values
RECURSIVE RoundTrips(_)
RoundTrips(v) ==
    CASE Kind(v) \in {"none", "bool", "int", "long", "float", "str"} -> TRUE
      [] Kind(v) = "list" -> \A i \in 1..Len(v[2]) : RoundTrips(v[2][i])
      [] Kind(v) = "dict" ->
            \A i \in 1..Len(v[2]) :
               /\ Kind(v[2][i][2]) = "str" /\ v[2][i][2] # _TYPE_KEY
               /\ RoundTrips(v[2][i][3])
      [] Kind(v) = "Traverser" -> RoundTrips(v[2]) /\ RoundTrips(v[3])
      [] OTHER -> FALSE

\* C5 as stated: with the default registry, toObject(toDict(v)) = v for every
\* int, long, float and Traverser v, whatever the Traverser holds.
C5_RoundTripEveryValue ==
    ( /\ pc = "readBack"
      /\ DefaultSession(sid)
      /\ Kind(input) \in {"int", "long", "float", "Traverser"} )
    => out = input

\* C5 amended: with the default registry, toObject(toDict(v)) = v for every int,
\* long and float v, and for every Traverser v whose object and bulk are built
\* of values that have a decoder or pass through both ways unchanged.
C5_RoundTrip ==
    ( /\ pc = "readBack"
      /\ DefaultSession(sid)
      /\ Kind(input) \in {"int", "long", "float", "Traverser"}
      /\ RoundTrips(input) )
    => out = input

C5_Witness ==
    /\ pc = "readBack"
    /\ DefaultSession(sid)
    /\ input = Traverser(PyList(<< PyLong(7), PyBool(TRUE) >>), PyLong(1))
    /\ out = input

\* every boolean nested in v through a list, a map, a Bytecode argument, a
\* predicate operand or a Binding value stands bare at the same place of w
RECURSIVE BoolsKept(_, _)
InstructionsKept(instructions, w) ==
    /\ Kind(w) = "list" /\ Len(w[2]) = Len(instructions)
    /\ \A i \in 1..Len(instructions) :
          /\ Kind(w[2][i]) = "list" /\ Len(w[2][i][2]) = Len(instructions[i])
          /\ \A j \in 2..Len(instructions[i]) : BoolsKept(instructions[i][j], w[2][i][2][j])

BoolsKept(v, w) ==
    CASE Kind(v) = "bool" -> w = v
      [] Kind(v) \in {"list", "set"} ->
            /\ Kind(w) = "list" /\ Len(w[2]) = Len(v[2])
            /\ \A i \in 1..Len(v[2]) : BoolsKept(v[2][i], w[2][i])
      [] Kind(v) = "dict" ->
            /\ Kind(w) = "dict" /\ Len(w[2]) = Len(v[2])
            /\ \A i \in 1..Len(v[2]) :
                  /\ BoolsKept(v[2][i][2], w[2][i][2])
                  /\ BoolsKept(v[2][i][3], w[2][i][3])
      [] Kind(v) \in {"Bytecode", "Traversal"} ->
            LET bytecode == IF Kind(v) = "Traversal" THEN v[2] ELSE v
                payload == Get(w, _VALUE_KEY)
            IN /\ bytecode[2] # << >> =>
                     InstructionsKept(bytecode[2], Get(payload, PyStr("source")))
               /\ bytecode[3] # << >> =>
                     InstructionsKept(bytecode[3], Get(payload, PyStr("step")))
      [] Kind(v) = "P" ->
            LET value == Get(Get(w, _VALUE_KEY), PyStr("value"))
            IN IF v[4] = None THEN BoolsKept(v[3], value)
               ELSE /\ Kind(value) = "list" /\ Len(value[2]) = 2
                    /\ BoolsKept(v[3], value[2][1])
                    /\ BoolsKept(v[4], value[2][2])
      [] Kind(v) = "Binding" -> BoolsKept(v[3], Get(Get(w, _VALUE_KEY), PyStr("value")))
      [] OTHER -> TRUE

\* C6: with the default registry a boolean encodes to itself, never to an
\* envelope, at the top and wherever it is nested in a list, a map, a Bytecode
\* argument, a predicate operand or a Binding value.
C6_BooleansStayBare ==
    ( pc = "toDict" /\ DefaultSession(sid) /\ ~IsRaise(out) ) => BoolsKept(input, out)

C6_Witness ==
    /\ pc = "toDict"
    /\ DefaultSession(sid)
    /\ input = Bytecode(<< >>, << << PyStr("V"), P("between", PyBool(TRUE), PyBool(FALSE)) >>,
                                 << PyStr("out") >> >>)
    /\ ~IsRaise(out)

\* C7: when the session's encode map has an entry for the exact type of the
\* value, toDict returns what that entry's encoder makes of the value, whatever
\* other entries match and wherever they stand in the map.
C7_ExactTypeEncoderWins ==
    ( pc = "toDict" /\ ItemsHas(Session(sid).serializers, TypeOf(input)) )
    => out = dictify(ItemsGet(Session(sid).serializers, TypeOf(input)), input, Session(sid))

\* the instruction lists as C8 describes them
EncodedInstructions(io, instructions) ==
    PyList(Seq1([i \in 1..Len(instructions) |->
        PyList(<< instructions[i][1] >> \o
               [j \in 1..(Len(instructions[i]) - 1) |-> toDict(io, instructions[i][j + 1])])]))

ArgumentRaises(io, instructions) ==
    \E i \in 1..Len(instructions) :
       \E j \in 2..Len(instructions[i]) : IsRaise(toDict(io, instructions[i][j]))

\* C8: a Bytecode, or a Traversal through its bytecode, encodes to the envelope
\* g:Bytecode whose payload has "source" exactly when there are source
\* instructions and "step" exactly when there are step instructions, each list
\* holding the instructions in order, the op-name as it is and then the encoded
\* arguments in order.
C8_BytecodeShape ==
    ( pc = "toDict" /\ Kind(input) \in {"Bytecode", "Traversal"} )
    => LET io == Session(sid)
           bytecode == IF Kind(input) = "Traversal" THEN input[2] ELSE input
           source == IF bytecode[2] # << >>
                     THEN << Item(PyStr("source"), EncodedInstructions(io, bytecode[2])) >>
                     ELSE << >>
           step == IF bytecode[3] # << >>
                   THEN << Item(PyStr("step"), EncodedInstructions(io, bytecode[3])) >>
                   ELSE << >>
       IN IF ArgumentRaises(io, bytecode[2]) \/ ArgumentRaises(io, bytecode[3])
          THEN IsRaise(out)
          ELSE /\ out = Envelope("g:Bytecode", PyDict(source \o step))
               /\ HasKey(Get(out, _VALUE_KEY), PyStr("source")) <=> bytecode[2] # << >>
               /\ HasKey(Get(out, _VALUE_KEY), PyStr("step")) <=> bytecode[3] # << >>

C8_Witness ==
    /\ pc = "toDict"
    /\ input = Bytecode(<< << PyStr("withSack"), PyInt(5), PyBool(TRUE) >> >>, << >>)
    /\ HasKey(Get(out, _VALUE_KEY), PyStr("source"))
    /\ ~HasKey(Get(out, _VALUE_KEY), PyStr("step"))

\* C9: a predicate encodes to the envelope g:P with "predicate" the operator
\* name and "value" the encoded operand alone when there is no second operand,
\* the list of the two encoded operands in order when there is one.
C9_PredicateShape ==
    ( pc = "toDict" /\ Kind(input) = "P" )
    => LET io == Session(sid)
           value == toDict(io, input[3])
           other == toDict(io, input[4])
       IN IF IsRaise(value) \/ (input[4] # None /\ IsRaise(other)) THEN IsRaise(out)
          ELSE out = Envelope("g:P",
                        PyDict(<< Item(PyStr("predicate"), PyStr(input[2])),
                                  Item(PyStr("value"),
                                       IF input[4] = None THEN value
                                       ELSE PyList(<< value, other >>)) >>))

C9_Witness ==
    /\ pc = "toDict"
    /\ input = P("between", PyInt(5), PyBool(FALSE))
    /\ Get(Get(out, _VALUE_KEY), PyStr("value")) =
          PyList(<< Envelope("g:Int32", PyInt(5)), PyBool(FALSE) >>)

\* some mapping inside w carries the tag
RECURSIVE HasTag(_, _)
HasTag(w, tag) ==
    CASE Kind(w) = "list" -> \E i \in 1..Len(w[2]) : HasTag(w[2][i], tag)
      [] Kind(w) = "dict" ->
            \/ HasKey(w, _TYPE_KEY) /\ Get(w, _TYPE_KEY) = PyStr(tag)
            \/ \E i \in 1..Len(w[2]) : HasTag(w[2][i][2], tag) \/ HasTag(w[2][i][3], tag)
      [] OTHER -> FALSE

=============================================================================
